---- MODULE Spec2Model ----
(***************************************************************************)
(* Model of plugins/file_rename.py: the message handler auto_rename_files, *)
(* the per-owner asyncio.Semaphore admission, the renaming_operations      *)
(* dedup table and the download -> metadata -> thumbnail -> upload         *)
(* pipeline of process_file with its except/finally blocks.                *)
(*                                                                         *)
(* extract_season_episode and extract_quality, which process_file calls on  *)
(* the file name, are modelled with the regular expressions of their two   *)
(* pattern catalogues.                                                     *)
(*                                                                         *)
(* One task per inbound message.  Every action is the code that runs       *)
(* between two suspension points (awaits) of the asyncio event loop.       *)
(***************************************************************************)
EXTENDS Integers, Sequences, FiniteSets, TLC

\* ---------------------------------------------------------------- bounds
MaxRuns == 2          \* inbound messages in a behaviour of Spec
MaxLoad == 6          \* inbound messages in a behaviour of SpecLoad
MaxFaults == 1        \* collaborator failures injected in a behaviour of Spec
MaxDeep == 1          \* runs past the template lookup at once, in SpecLoad
MaxOther == 1         \* messages of the second owner in SpecLoad
MaxQueue == 5         \* inbound messages in a behaviour of SpecQueue

\* ------------------------------------------------------ program constants
Capacity == 4         \* asyncio.Semaphore(4)
TTL == 10             \* (...).seconds < 10
DaySeconds == 86400   \* timedelta.seconds is the remainder within one day
NoId == 0             \* file_unique_id is None
None == 0             \* None in a group_info: the pattern has no such group

Tasks == 1..(IF MaxLoad > MaxRuns THEN MaxLoad ELSE MaxRuns)
Owners == {1, 2}
\* seconds between one reading of datetime.now() and the next
Elapsed == {0, 5, DaySeconds}

\* The messages the transport may deliver (any of them any number of times).
\* name is the case-insensitive rank of the computed new_filename; group
\* tells whether the message is part of the owner's media group.
\* template is the answer of get_format_template at arrival.
Inbox ==
    { [owner |-> 1, fid |-> 1, name |-> 2, group |-> TRUE, template |-> TRUE],   \* "Show S01E02.mkv"
      [owner |-> 1, fid |-> 2, name |-> 1, group |-> TRUE, template |-> TRUE],   \* "Show S01E01.mkv"
      [owner |-> 2, fid |-> 1, name |-> 2, group |-> FALSE, template |-> TRUE],  \* same file, other owner
      [owner |-> 1, fid |-> NoId, name |-> 1, group |-> FALSE, template |-> TRUE],
      [owner |-> 2, fid |-> 2, name |-> 1, group |-> FALSE, template |-> FALSE] }

\* Load: the t-th message is a new file (its own identity and target name).
LoadMsg(t, o) ==
    [owner |-> o, fid |-> t, name |-> t, group |-> FALSE, template |-> TRUE]

NoMsg == [owner |-> 0, fid |-> NoId, name |-> 0, group |-> FALSE, template |-> FALSE]

VARIABLES
    message,            \* task -> the Message it handles (NoMsg before arrival)
    pc,                 \* task -> position in auto_rename_files / process_file
    user_semaphores,    \* owner -> index of its semaphore in sems, 0 if none
    sems,               \* the Semaphore objects: [value, waiters]
    tsem,               \* task -> the semaphore passed to process_file
    renaming_operations,\* file_unique_id -> datetime of the record
    now,                \* the latest reading of datetime.now(), in seconds
    faults,             \* number of failures injected so far
    reached,            \* task -> how far process_file's try body got
    thumb,              \* task -> thumb_path is a file (not None)
    fs,                 \* paths that exist on disk
    delivered,          \* media-group uploads completed, in completion order
    recorded,           \* history: task -> time it wrote its dedup record
    leftover,           \* history: task -> its artifacts on disk at termination
    file_name,          \* the file name lines 356-357 pass to the extractors
    filename,           \* the extractor's parameter, which it reassigns
    xpc,                \* position in the extractors
    idx,                \* index of the catalogue entry the loop is at
    season,             \* result of extract_season_episode
    episode,
    quality_parts,      \* labels collected by extract_quality, lowercased
    quality             \* result of extract_quality

\* the variables of the pipeline and those of the extractors
pvars == <<message, pc, user_semaphores, sems, tsem, renaming_operations, now,
           faults, reached, thumb, fs, delivered, recorded, leftover>>

xvars == <<file_name, filename, xpc, idx, season, episode, quality_parts,
           quality>>

vars == <<pvars, xvars>>

\* reached[t]: 0 nothing bound; 1 download_path and metadata_path bound;
\* 2 download done; 3 metadata done; 4 thumb_path bound; 5 upload done.
Holding == {"woken", "unsupported", "fmt", "download", "metadata", "thumb",
            "upload", "except"}
Terminal == {"rejected", "ignored", "dropped", "done", "failed", "crashed"}

download_path(t) == <<"downloads", message[t].name>>
metadata_path(t) == <<"metadata", message[t].name>>
thumb_path(t) == <<"thumb", t>>

\* the module after import: no message yet
Constructed ==
    /\ message = [t \in Tasks |-> NoMsg]
    /\ pc = [t \in Tasks |-> "idle"]
    /\ user_semaphores = [o \in Owners |-> 0]
    /\ sems = <<>>
    /\ tsem = [t \in Tasks |-> 0]
    /\ renaming_operations = [f \in {} |-> 0]
    /\ now = 0
    /\ faults = 0
    /\ reached = [t \in Tasks |-> 0]
    /\ thumb = [t \in Tasks |-> FALSE]
    /\ fs = {}
    /\ delivered = <<>>
    /\ recorded = [t \in {} |-> 0]
    /\ leftover = [t \in Tasks |-> {}]

\* no extractor call under way
NoCall ==
    /\ file_name = <<>>
    /\ filename = <<>>
    /\ xpc = "idle"
    /\ idx = 0
    /\ season = <<>>
    /\ episode = <<>>
    /\ quality_parts = <<>>
    /\ quality = <<>>

Init == Constructed /\ NoCall

\* ------------------------------------------------------------- semaphore
\* variant: one semaphore shared by every owner
SemKeyShared(o) == 1

\* user_semaphores[user_id]
SemKey(o) == o

NewSemaphore == [value |-> Capacity, waiters |-> <<>>]

\* Semaphore.locked(): no permit, or somebody already queued
locked(S, s) == S[s].value = 0 \/ S[s].waiters # <<>>

\* Semaphore.release(): the permit goes to the first waiter, if any
release(S, s) ==
    IF S[s].waiters # <<>>
    THEN [S EXCEPT ![s].waiters = Tail(@)]
    ELSE [S EXCEPT ![s].value = @ + 1]

\* variant: release() wakes nobody
WokenByNobody(S, s) == {}

WokenBy(S, s) == IF S[s].waiters # <<>> THEN {Head(S[s].waiters)} ELSE {}

\* variant: the permit is given back by a statement after the finally block,
\* which an exception raised in the finally block skips
ExitWithLeak(t, p, S) ==
    /\ sems' = IF p = "crashed" THEN S ELSE release(S, tsem[t])
    /\ pc' = [u \in Tasks |-> IF u = t THEN p
                              ELSE IF p # "crashed" /\ u \in WokenBy(S, tsem[t])
                              THEN "woken"
                              ELSE pc[u]]

\* leaving "async with semaphore" from task t, which ends in position p
ExitWith(t, p, S) ==
    /\ sems' = release(S, tsem[t])
    /\ pc' = [u \in Tasks |-> IF u = t THEN p
                              ELSE IF u \in WokenBy(S, tsem[t]) THEN "woken"
                              ELSE pc[u]]

\* ---------------------------------------------------------------- dedup
\* timedelta.seconds of a non-negative difference
seconds(d) == d % DaySeconds

\* variant: the comparison the wrong way round
IsDuplicateReversed(f, n) ==
    /\ f \in DOMAIN renaming_operations
    /\ seconds(n - renaming_operations[f]) > TTL

\* lines 341-342, with n the reading of datetime.now()
IsDuplicate(f, n) ==
    /\ f \in DOMAIN renaming_operations
    /\ seconds(n - renaming_operations[f]) < TTL

\* ------------------------------------------------------ auto_rename_files
\* variant: a new semaphore for every message
CreatesSemaphoreAlways(o, tmpl) == tmpl

\* variant: the semaphore is created before the template is checked
CreatesSemaphoreEarly(o, tmpl) == user_semaphores[SemKey(o)] = 0

\* lines 319-323
CreatesSemaphore(o, tmpl) == tmpl /\ user_semaphores[SemKey(o)] = 0

Arrive(t, m) ==
    LET tmpl == m.template IN
    /\ pc[t] = "idle"
    /\ \A u \in Tasks : u < t => pc[u] # "idle"
    /\ message' = [message EXCEPT ![t] = m]
    /\ sems' = IF CreatesSemaphore(m.owner, tmpl)
               THEN Append(sems, NewSemaphore) ELSE sems
    /\ user_semaphores' =
          IF CreatesSemaphore(m.owner, tmpl)
          THEN [user_semaphores EXCEPT ![SemKey(m.owner)] = Len(sems) + 1]
          ELSE user_semaphores
    /\ tsem' = [tsem EXCEPT ![t] = IF tmpl THEN user_semaphores'[SemKey(m.owner)] ELSE 0]
    /\ pc' = [pc EXCEPT ![t] = IF tmpl THEN "spawned" ELSE "rejected"]
    /\ UNCHANGED <<renaming_operations, now, faults, reached, thumb, fs,
                   delivered, recorded, leftover>>

\* ----------------------------------------------------------- process_file
\* lines 330-344, run with the permit held; S is the semaphore state then
\* and n the reading of datetime.now() (lines 342 and 344)
Body(t, S, n) ==
    LET f == message[t].fid IN
    IF f = NoId
    THEN /\ pc' = [pc EXCEPT ![t] = "unsupported"]
         /\ sems' = S
         /\ UNCHANGED <<renaming_operations, recorded, now>>
    ELSE IF IsDuplicate(f, n)
    THEN /\ ExitWith(t, "dropped", S)
         /\ now' = n
         /\ UNCHANGED <<renaming_operations, recorded>>
    ELSE /\ renaming_operations' =
               [g \in DOMAIN renaming_operations \cup {f} |->
                    IF g = f THEN n ELSE renaming_operations[g]]
         /\ recorded' = [u \in DOMAIN recorded \cup {t} |->
                            IF u = t THEN n ELSE recorded[u]]
         /\ now' = n
         /\ pc' = [pc EXCEPT ![t] = "fmt"]
         /\ sems' = S

\* the task starts: "async with semaphore" either takes a permit and runs on
\* to the first await, or queues the task; d seconds have passed since the
\* clock was last read
Enter(t, d) ==
    /\ pc[t] = "spawned"
    /\ \A u \in Tasks : u < t => pc[u] # "spawned"
    /\ IF locked(sems, tsem[t])
       THEN /\ sems' = [sems EXCEPT ![tsem[t]].waiters = Append(@, t)]
            /\ pc' = [pc EXCEPT ![t] = "waiting"]
            /\ UNCHANGED <<renaming_operations, recorded, now>>
       ELSE Body(t, [sems EXCEPT ![tsem[t]].value = @ - 1], now + d)
    /\ UNCHANGED <<message, user_semaphores, tsem, faults, reached, thumb,
                   fs, delivered, leftover>>

\* a queued task that was handed the permit resumes
Resume(t, d) ==
    /\ pc[t] = "woken"
    /\ Body(t, sems, now + d)
    /\ UNCHANGED <<message, user_semaphores, tsem, faults, reached, thumb,
                   fs, delivered, leftover>>

\* "return await message.reply_text('Unsupported file type.')"
Unsupported(t) ==
    /\ pc[t] = "unsupported"
    /\ ExitWith(t, "ignored", sems)
    /\ UNCHANGED <<message, user_semaphores, tsem, renaming_operations, now,
                   faults, reached, thumb, fs, delivered, recorded, leftover>>

Raise(t) == pc' = [pc EXCEPT ![t] = "except"]

\* a collaborator call (store, transport, ffmpeg) raises
Fault(t) ==
    /\ faults < MaxFaults
    /\ faults' = faults + 1
    /\ Raise(t)

\* lines 347-379: names, "await get_format_template", the working paths
Format(t, ok) ==
    /\ pc[t] = "fmt"
    /\ IF ok
       THEN /\ reached' = [reached EXCEPT ![t] = 1]
            /\ pc' = [pc EXCEPT ![t] = "download"]
            /\ UNCHANGED faults
       ELSE /\ Fault(t)
            /\ UNCHANGED reached
    /\ UNCHANGED <<message, user_semaphores, sems, tsem, renaming_operations,
                   now, thumb, fs, delivered, recorded, leftover>>

\* lines 382-388: status message and client.download_media
Download(t, ok) ==
    /\ pc[t] = "download"
    /\ IF ok
       THEN /\ reached' = [reached EXCEPT ![t] = 2]
            /\ fs' = fs \cup {download_path(t)}
            /\ pc' = [pc EXCEPT ![t] = "metadata"]
            /\ UNCHANGED faults
       ELSE /\ Fault(t)
            /\ UNCHANGED <<reached, fs>>
    /\ UNCHANGED <<message, user_semaphores, sems, tsem, renaming_operations,
                   now, thumb, delivered, recorded, leftover>>

\* lines 391-397: add_metadata; ffmpeg fails when its input file is gone
Metadata(t, ok) ==
    /\ pc[t] = "metadata"
    /\ IF download_path(t) \notin fs
       THEN /\ Raise(t)
            /\ UNCHANGED <<reached, fs, faults>>
       ELSE IF ok
       THEN /\ reached' = [reached EXCEPT ![t] = 3]
            /\ fs' = fs \cup {metadata_path(t)}
            /\ pc' = [pc EXCEPT ![t] = "thumb"]
            /\ UNCHANGED faults
       ELSE /\ Fault(t)
            /\ UNCHANGED <<reached, fs>>
    /\ UNCHANGED <<message, user_semaphores, sems, tsem, renaming_operations,
                   now, thumb, delivered, recorded, leftover>>

\* lines 400-409: caption and thumbnail.  how is
\*   "lookup"  get_caption/get_thumbnail raised (thumb_path not yet bound)
\*   "fetch"   download_media of the thumbnail raised (thumb_path = None)
\*   "none"    no thumbnail, or process_thumbnail removed it and returned None
\*   "file"    thumbnail downloaded and resized
ThumbOutcomes == {"lookup", "fetch", "none", "file"}

Thumb(t, how) ==
    /\ pc[t] = "thumb"
    /\ IF how \in {"lookup", "fetch"}
       THEN /\ Fault(t)
            /\ reached' = [reached EXCEPT ![t] = IF how = "lookup" THEN @ ELSE 4]
            /\ UNCHANGED <<thumb, fs>>
       ELSE /\ reached' = [reached EXCEPT ![t] = 4]
            /\ thumb' = [thumb EXCEPT ![t] = (how = "file")]
            /\ fs' = IF how = "file" THEN fs \cup {thumb_path(t)} ELSE fs
            /\ pc' = [pc EXCEPT ![t] = "upload"]
            /\ UNCHANGED faults
    /\ UNCHANGED <<message, user_semaphores, sems, tsem, renaming_operations,
                   now, delivered, recorded, leftover>>

\* the files task t wrote, given how far it got
Artifacts(t, r, th) ==
    (IF r >= 2 THEN {download_path(t)} ELSE {})
    \cup (IF r >= 3 THEN {metadata_path(t)} ELSE {})
    \cup (IF th THEN {thumb_path(t)} ELSE {})

\* thumb_path is assigned at line 402 only; before it, evaluating the
\* arguments of cleanup_files raises UnboundLocalError out of the finally block
FinallyRuns(r) == r >= 4

\* cleanup_files(download_path, metadata_path, thumb_path)
cleanup_files(F, t) ==
    F \ ({download_path(t), metadata_path(t)}
           \cup (IF thumb[t] THEN {thumb_path(t)} ELSE {}))

\* renaming_operations.pop(file_unique_id, None)
pop(R, f) == [g \in DOMAIN R \ {f} |-> R[g]]

\* lines 433-435 followed by the exit of "async with"; r is reached at exit
\* and p the position when the finally block completes.  The locals die.
Finally(t, r, p) ==
    /\ IF FinallyRuns(r)
       THEN /\ fs' = cleanup_files(fs, t)
            /\ renaming_operations' = pop(renaming_operations, message[t].fid)
            /\ ExitWith(t, p, sems)
       ELSE /\ UNCHANGED <<fs, renaming_operations>>
            /\ ExitWith(t, "crashed", sems)
    /\ leftover' = [leftover EXCEPT ![t] = Artifacts(t, r, thumb[t]) \cap fs']
    /\ reached' = [reached EXCEPT ![t] = 0]
    /\ thumb' = [thumb EXCEPT ![t] = FALSE]

\* lines 412-428: send_document / send_video / send_audio, status_msg.delete;
\* the transport fails when the file to send is gone
Upload(t, ok) ==
    /\ pc[t] = "upload"
    /\ IF metadata_path(t) \notin fs
       THEN /\ Raise(t)
            /\ UNCHANGED <<delivered, reached, thumb, fs, renaming_operations,
                           sems, leftover, faults>>
       ELSE IF ok
       THEN /\ delivered' = IF message[t].group THEN Append(delivered, t)
                                                 ELSE delivered
            /\ Finally(t, 5, "done")
            /\ UNCHANGED faults
       ELSE /\ Fault(t)
            /\ UNCHANGED <<delivered, reached, thumb, fs, renaming_operations,
                           sems, leftover>>
    /\ UNCHANGED <<message, user_semaphores, tsem, now, recorded>>

\* lines 430-435: the error reply, then the finally block
Except(t) ==
    /\ pc[t] = "except"
    /\ Finally(t, reached[t], "failed")
    /\ UNCHANGED <<message, user_semaphores, tsem, now, faults,
                   delivered, recorded>>

\* ------------------------------------------------------- specifications
\* the steps of the try block and its except/finally; oks tells whether the
\* collaborators may fail (FALSE \in oks)
Pipeline(t, oks) ==
    \/ \E ok \in oks : Format(t, ok)
    \/ \E ok \in oks : Download(t, ok)
    \/ \E ok \in oks : Metadata(t, ok)
    \/ \E how \in ThumbOutcomes :
          /\ how \in {"lookup", "fetch"} => FALSE \in oks
          /\ Thumb(t, how)
    \/ \E ok \in oks : Upload(t, ok)
    \/ Except(t)

\* Spec: up to MaxRuns (fewer than Capacity) messages drawn from Inbox, any
\* time apart; no run ever queues, so Resume has nothing to do here.
Next ==
    \/ \E t \in 1..MaxRuns, m \in Inbox : Arrive(t, m) /\ UNCHANGED xvars
    \/ \E t \in Tasks, d \in Elapsed : Enter(t, d) /\ UNCHANGED xvars
    \/ \E t \in Tasks : Unsupported(t) /\ UNCHANGED xvars
    \/ \E t \in Tasks : Pipeline(t, BOOLEAN) /\ UNCHANGED xvars

Spec == Init /\ [][Next]_vars

\* SpecLoad: a burst of MaxLoad (more than Capacity) new files at one instant,
\* every collaborator call succeeding (Spec explores the failure exits).
\* It explores the schedules in which at most MaxDeep runs are
\* between the template lookup and the end of the upload.
Deep == {"download", "metadata", "thumb", "upload"}

Schedule == Cardinality({t \in Tasks : pc[t] \in Deep}) <= MaxDeep

\* a burst of owner 1 with up to MaxOther messages of owner 2 in between
LoadOwners ==
    IF Cardinality({t \in Tasks : message[t].owner = 2}) < MaxOther
    THEN Owners ELSE {1}

NextLoad ==
    \/ \E t \in 1..MaxLoad, o \in LoadOwners :
          Arrive(t, LoadMsg(t, o)) /\ UNCHANGED xvars
    \/ \E t \in Tasks : Enter(t, 0) /\ UNCHANGED xvars
    \/ \E t \in Tasks : Resume(t, 0) /\ UNCHANGED xvars
    \/ \E t \in Tasks : Pipeline(t, {TRUE}) /\ Schedule' /\ UNCHANGED xvars

SpecLoad == Init /\ [][NextLoad]_vars

\* SpecQueue: a burst of MaxQueue (more than Capacity) messages of one owner
\* at one instant; the first Capacity ones are new files, a later one is a
\* new file or file 1 once more.  The event loop runs every task that is
\* ready and every collaborator call returns, hence the weak fairness of the
\* steps of each task; the transport owes no message.
QueueFiles(t) == IF t > Capacity THEN {t, 1} ELSE {t}

QueueMsg(f) ==
    [owner |-> 1, fid |-> f, name |-> f, group |-> FALSE, template |-> TRUE]

Start(t) == Enter(t, 0) /\ UNCHANGED xvars

Wake(t) == Resume(t, 0) /\ UNCHANGED xvars

Step(t) == Pipeline(t, {TRUE}) /\ Schedule' /\ UNCHANGED xvars

NextQueue ==
    \/ \E t \in 1..MaxQueue : \E f \in QueueFiles(t) :
          Arrive(t, QueueMsg(f)) /\ UNCHANGED xvars
    \/ \E t \in Tasks : Start(t)
    \/ \E t \in Tasks : Wake(t)
    \/ \E t \in Tasks : Step(t)

SpecQueue ==
    /\ Init
    /\ [][NextQueue]_vars
    /\ \A t \in Tasks : WF_vars(Start(t)) /\ WF_vars(Wake(t)) /\ WF_vars(Step(t))

\* SpecLong: up to MaxRuns messages, each the same file or another file of
\* the other owner whose computed new_filename is the same; a run may last
\* TTL seconds (a download of ten seconds), and collaborators may fail.
LongInbox ==
    { [owner |-> 1, fid |-> 1, name |-> 1, group |-> FALSE, template |-> TRUE],
      [owner |-> 2, fid |-> 2, name |-> 1, group |-> FALSE, template |-> TRUE] }

\* seconds between one reading of datetime.now() and the next
Waits == {0, TTL}

NextLong ==
    \/ \E t \in 1..MaxRuns, m \in LongInbox : Arrive(t, m) /\ UNCHANGED xvars
    \/ \E t \in Tasks, d \in Waits : Enter(t, d) /\ UNCHANGED xvars
    \/ \E t \in Tasks : Pipeline(t, BOOLEAN) /\ UNCHANGED xvars

SpecLong == Init /\ [][NextLong]_vars

\* ---------------------------------------------------- regular expressions
\* File names are sequences of one-character strings.  The part of module re
\* that the two pattern catalogues use: every pattern is compiled with
\* re.IGNORECASE, search() returns the leftmost match and, at one position,
\* the first one in backtracking order (greedy repetition, alternatives left
\* to right).
UPPER ==
    <<"A", "B", "C", "D", "E", "F", "G", "H", "I", "J", "K", "L", "M",
      "N", "O", "P", "Q", "R", "S", "T", "U", "V", "W", "X", "Y", "Z">>

LOWER ==
    <<"a", "b", "c", "d", "e", "f", "g", "h", "i", "j", "k", "l", "m",
      "n", "o", "p", "q", "r", "s", "t", "u", "v", "w", "x", "y", "z">>

Range(s) == {s[k] : k \in 1..Len(s)}

Letter == Range(UPPER) \cup Range(LOWER)

\* \d
Digit == {"0", "1", "2", "3", "4", "5", "6", "7", "8", "9"}

\* \s
Space == {" ", "\t", "\n", "\r", "\f"}

\* \w, which decides the word boundaries \b
Word == Letter \cup Digit \cup {"_"}

Lowered == [c \in Range(UPPER) |-> LOWER[CHOOSE k \in 1..Len(UPPER) : UPPER[k] = c]]

\* str.lower() on one character and on a string
lowerchar(c) == IF c \in DOMAIN Lowered THEN Lowered[c] ELSE c

lower(s) == [k \in 1..Len(s) |-> lowerchar(s[k])]

\* the pattern syntax
B == <<"b">>

Bos == <<"bos">>

Eos == <<"eos">>

Text(cs) == <<"text", cs>>

In(S) == <<"in", S>>

Cat(rs) == <<"cat", rs>>

Or(rs) == <<"or", rs>>

Rep(r, lo, hi) == <<"rep", r, lo, hi>>

Many(r, lo) == <<"many", r, lo>>

Group(k, r) == <<"group", k, r>>

Ahead(r) == <<"ahead", r>>

NotAhead(r) == <<"notahead", r>>

NotBehind(r) == <<"notbehind", r>>

\* a group that took no part in the match, and a match with no group yet
Unset == <<0, 0>>

NoGroups == <<Unset, Unset>>

IsWord(s, i) == i >= 1 /\ i <= Len(s) /\ s[i] \in Word

\* the literal text cs stands at position i of s, letter case ignored
TextAt(cs, s, i) ==
    /\ i + Len(cs) - 1 <= Len(s)
    /\ \A k \in 1..Len(cs) : lowerchar(s[i + k - 1]) = lowerchar(cs[k])

Here(i, g) == << <<i, g>> >>

\* the ways pattern r matches s from position i on, best first: each one is
\* the position after the match and the groups set so far
RECURSIVE Match(_, _, _, _)
RECURSIVE MatchCat(_, _, _, _, _)
RECURSIVE ThenCat(_, _, _, _, _)
RECURSIVE MatchOr(_, _, _, _, _)
RECURSIVE MatchRep(_, _, _, _, _, _)
RECURSIVE ThenRep(_, _, _, _, _, _, _)

Captured(ms, k, i) ==
    [n \in 1..Len(ms) |-> <<ms[n][1], [ms[n][2] EXCEPT ![k] = <<i, ms[n][1]>>]>>]

Match(r, s, i, g) ==
    CASE r[1] = "text" ->
            IF TextAt(r[2], s, i) THEN Here(i + Len(r[2]), g) ELSE <<>>
      [] r[1] = "in" ->
            IF i <= Len(s) /\ s[i] \in r[2] THEN Here(i + 1, g) ELSE <<>>
      [] r[1] = "b" ->
            IF IsWord(s, i - 1) # IsWord(s, i) THEN Here(i, g) ELSE <<>>
      [] r[1] = "bos" -> IF i = 1 THEN Here(i, g) ELSE <<>>
      [] r[1] = "eos" -> IF i = Len(s) + 1 THEN Here(i, g) ELSE <<>>
      [] r[1] = "cat" -> MatchCat(r[2], 1, s, i, g)
      [] r[1] = "or" -> MatchOr(r[2], 1, s, i, g)
      [] r[1] = "rep" -> MatchRep(r[2], r[3], r[4], s, i, g)
      [] r[1] = "many" -> MatchRep(r[2], r[3], Len(s), s, i, g)
      [] r[1] = "group" -> Captured(Match(r[3], s, i, g), r[2], i)
      [] r[1] = "ahead" ->
            IF Len(Match(r[2], s, i, g)) > 0 THEN Here(i, g) ELSE <<>>
      [] r[1] = "notahead" ->
            IF Len(Match(r[2], s, i, g)) > 0 THEN <<>> ELSE Here(i, g)
      [] r[1] = "notbehind" ->
            IF i > 1 /\ Len(Match(r[2], s, i - 1, g)) > 0
            THEN <<>> ELSE Here(i, g)

MatchCat(rs, k, s, i, g) ==
    IF k > Len(rs) THEN Here(i, g)
    ELSE ThenCat(Match(rs[k], s, i, g), 1, rs, k, s)

ThenCat(ms, n, rs, k, s) ==
    IF n > Len(ms) THEN <<>>
    ELSE MatchCat(rs, k + 1, s, ms[n][1], ms[n][2])
             \o ThenCat(ms, n + 1, rs, k, s)

MatchOr(rs, k, s, i, g) ==
    IF k > Len(rs) THEN <<>>
    ELSE Match(rs[k], s, i, g) \o MatchOr(rs, k + 1, s, i, g)

MatchRep(r, lo, hi, s, i, g) ==
    (IF hi = 0 THEN <<>> ELSE ThenRep(Match(r, s, i, g), 1, r, lo, hi, s, i))
        \o (IF lo = 0 THEN Here(i, g) ELSE <<>>)

ThenRep(ms, n, r, lo, hi, s, i) ==
    IF n > Len(ms) THEN <<>>
    ELSE (IF ms[n][1] > i
          THEN MatchRep(r, IF lo > 0 THEN lo - 1 ELSE 0, hi - 1,
                        s, ms[n][1], ms[n][2])
          ELSE <<>>)
             \o ThenRep(ms, n + 1, r, lo, hi, s, i)

RECURSIVE SearchFrom(_, _, _)
SearchFrom(r, s, i) ==
    IF i > Len(s) + 1 THEN [found |-> FALSE]
    ELSE LET ms == Match(r, s, i, NoGroups) IN
         IF Len(ms) > 0
         THEN [found |-> TRUE, string |-> s, start |-> i,
               end |-> ms[1][1], groups |-> ms[1][2]]
         ELSE SearchFrom(r, s, i + 1)

\* pattern.search(filename)
search(r, s) == SearchFrom(r, s, 1)

\* match.group(k) and match.lastindex (no group of the catalogues is nested
\* or optional)
group(m, k) ==
    IF k = 0 THEN SubSeq(m.string, m.start, m.end - 1)
    ELSE SubSeq(m.string, m.groups[k][1], m.groups[k][2] - 1)

lastindex(m) ==
    IF m.groups[2] # Unset THEN 2 ELSE IF m.groups[1] # Unset THEN 1 ELSE 0

\* the first position at or after i where c stands in s, 0 if there is none
RECURSIVE IndexFrom(_, _, _)
IndexFrom(s, i, c) ==
    IF i > Len(s) THEN 0 ELSE IF s[i] = c THEN i ELSE IndexFrom(s, i + 1, c)

\* re.sub(r'\(.*?\)', ' ', filename): every "(" up to the nearest ")" after
\* it becomes one blank
RECURSIVE sub(_)
sub(s) ==
    LET open == IndexFrom(s, 1, "(")
        close == IF open = 0 THEN 0 ELSE IndexFrom(s, open + 1, ")")
    IN  IF close = 0 THEN s
        ELSE SubSeq(s, 1, open - 1) \o <<" ">>
                 \o sub(SubSeq(s, close + 1, Len(s)))

\* the first position where old stands in s (letter case kept), 0 if none
RECURSIVE Find(_, _, _)
Find(s, old, i) ==
    IF i + Len(old) - 1 > Len(s) THEN 0
    ELSE IF SubSeq(s, i, i + Len(old) - 1) = old THEN i
    ELSE Find(s, old, i + 1)

\* filename.replace(old, '', 1)
replace(s, old) ==
    LET at == Find(s, old, 1) IN
    IF at = 0 THEN s
    ELSE SubSeq(s, 1, at - 1) \o SubSeq(s, at + Len(old), Len(s))

\* str.zfill(width) of a string of digits
RECURSIVE zfill(_, _)
zfill(s, width) == IF Len(s) >= width THEN s ELSE zfill(<<"0">> \o s, width)

\* ------------------------------------------------------ pattern catalogues
\* the extractor "lambda m: m.group(1)" of line 128, which has no label of
\* its own
group1 == <<>>

SEASON_EPISODE_PATTERNS ==
    <<
    \* line 37: \bS(\d{1,2})[\.\-_]?E(\d{1,3})\b
    [re |-> Cat(<<B, Text(<<"S">>), Group(1, Rep(In(Digit), 1, 2)),
            Rep(In({"-", ".", "_"}), 0, 1), Text(<<"E">>), Group(2,
            Rep(In(Digit), 1, 3)), B>>),
     group_info |-> <<1, 2>>],
    \* line 38: \bS(\d{1,2})\s+E(\d{1,3})\b
    [re |-> Cat(<<B, Text(<<"S">>), Group(1, Rep(In(Digit), 1, 2)),
            Many(In(Space), 1), Text(<<"E">>), Group(2, Rep(In(Digit), 1,
            3)), B>>),
     group_info |-> <<1, 2>>],
    \* line 39: \[S(\d{1,2})[\.\-_]?E(\d{1,3})\]
    [re |-> Cat(<<Text(<<"[", "S">>), Group(1, Rep(In(Digit), 1, 2)),
            Rep(In({"-", ".", "_"}), 0, 1), Text(<<"E">>), Group(2,
            Rep(In(Digit), 1, 3)), Text(<<"]">>)>>),
     group_info |-> <<1, 2>>],
    \* line 40: \(S(\d{1,2})[\.\-_]?E(\d{1,3})\)
    [re |-> Cat(<<Text(<<"(", "S">>), Group(1, Rep(In(Digit), 1, 2)),
            Rep(In({"-", ".", "_"}), 0, 1), Text(<<"E">>), Group(2,
            Rep(In(Digit), 1, 3)), Text(<<")">>)>>),
     group_info |-> <<1, 2>>],
    \* line 43: \b(\d{1,2})x(\d{1,3})\b
    [re |-> Cat(<<B, Group(1, Rep(In(Digit), 1, 2)), Text(<<"x">>), Group(2,
            Rep(In(Digit), 1, 3)), B>>),
     group_info |-> <<1, 2>>],
    \* line 44: \[(\d{1,2})x(\d{1,3})\]
    [re |-> Cat(<<Text(<<"[">>), Group(1, Rep(In(Digit), 1, 2)),
            Text(<<"x">>), Group(2, Rep(In(Digit), 1, 3)), Text(<<"]">>)>>),
     group_info |-> <<1, 2>>],
    \* line 45: \((\d{1,2})x(\d{1,3})\)
    [re |-> Cat(<<Text(<<"(">>), Group(1, Rep(In(Digit), 1, 2)),
            Text(<<"x">>), Group(2, Rep(In(Digit), 1, 3)), Text(<<")">>)>>),
     group_info |-> <<1, 2>>],
    \* line 48: \bSeason[\s\-_.]*(\d{1,2})[\s\-_.]*Episode[\s\-_.]*(\d{1,3})\b
    [re |-> Cat(<<B, Text(<<"S", "e", "a", "s", "o", "n">>),
            Many(In(Space \cup {"-", ".", "_"}), 0), Group(1, Rep(In(Digit),
            1, 2)), Many(In(Space \cup {"-", ".", "_"}), 0), Text(<<"E",
            "p", "i", "s", "o", "d", "e">>), Many(In(Space \cup {"-", ".",
            "_"}), 0), Group(2, Rep(In(Digit), 1, 3)), B>>),
     group_info |-> <<1, 2>>],
    \* line 49: \bSeason[\s\-_.]*(\d{1,2})[\s\-_.]*Ep[\s\-_.]*(\d{1,3})\b
    [re |-> Cat(<<B, Text(<<"S", "e", "a", "s", "o", "n">>),
            Many(In(Space \cup {"-", ".", "_"}), 0), Group(1, Rep(In(Digit),
            1, 2)), Many(In(Space \cup {"-", ".", "_"}), 0), Text(<<"E",
            "p">>), Many(In(Space \cup {"-", ".", "_"}), 0), Group(2,
            Rep(In(Digit), 1, 3)), B>>),
     group_info |-> <<1, 2>>],
    \* line 50: \bSeason[\s\-_.]*(\d{1,2})[\s\-_.]*E[\s\-_.]*(\d{1,3})\b
    [re |-> Cat(<<B, Text(<<"S", "e", "a", "s", "o", "n">>),
            Many(In(Space \cup {"-", ".", "_"}), 0), Group(1, Rep(In(Digit),
            1, 2)), Many(In(Space \cup {"-", ".", "_"}), 0), Text(<<"E">>),
            Many(In(Space \cup {"-", ".", "_"}), 0), Group(2, Rep(In(Digit),
            1, 3)), B>>),
     group_info |-> <<1, 2>>],
    \* line 53: \[S(\d{1,2})\][\s\-_.]*\[E(\d{1,3})\]
    [re |-> Cat(<<Text(<<"[", "S">>), Group(1, Rep(In(Digit), 1, 2)),
            Text(<<"]">>), Many(In(Space \cup {"-", ".", "_"}), 0),
            Text(<<"[", "E">>), Group(2, Rep(In(Digit), 1, 3)),
            Text(<<"]">>)>>),
     group_info |-> <<1, 2>>],
    \* line 54: \(S(\d{1,2})\)[\s\-_.]*\(E(\d{1,3})\)
    [re |-> Cat(<<Text(<<"(", "S">>), Group(1, Rep(In(Digit), 1, 2)),
            Text(<<")">>), Many(In(Space \cup {"-", ".", "_"}), 0),
            Text(<<"(", "E">>), Group(2, Rep(In(Digit), 1, 3)),
            Text(<<")">>)>>),
     group_info |-> <<1, 2>>],
    \* line 57: \bS(\d{1,2})\.(\d{1,3})\b
    [re |-> Cat(<<B, Text(<<"S">>), Group(1, Rep(In(Digit), 1, 2)),
            Text(<<".">>), Group(2, Rep(In(Digit), 1, 3)), B>>),
     group_info |-> <<1, 2>>],
    \* line 58: \bS(\d{1,2})\-(\d{1,3})\b
    [re |-> Cat(<<B, Text(<<"S">>), Group(1, Rep(In(Digit), 1, 2)),
            Text(<<"-">>), Group(2, Rep(In(Digit), 1, 3)), B>>),
     group_info |-> <<1, 2>>],
    \* line 59: \b(\d{1,2})\.(\d{1,3})\b(?!p|fps)
    [re |-> Cat(<<B, Group(1, Rep(In(Digit), 1, 2)), Text(<<".">>), Group(2,
            Rep(In(Digit), 1, 3)), B, NotAhead(Or(<<Text(<<"p">>),
            Text(<<"f", "p", "s">>)>>))>>),
     group_info |-> <<1, 2>>],
    \* line 60: \b(\d{1,2})\-(\d{1,3})\b(?!p|fps)
    [re |-> Cat(<<B, Group(1, Rep(In(Digit), 1, 2)), Text(<<"-">>), Group(2,
            Rep(In(Digit), 1, 3)), B, NotAhead(Or(<<Text(<<"p">>),
            Text(<<"f", "p", "s">>)>>))>>),
     group_info |-> <<1, 2>>],
    \* line 65: \bS\s*(\d{1,2})\s+(\d{1,3})\b
    [re |-> Cat(<<B, Text(<<"S">>), Many(In(Space), 0), Group(1,
            Rep(In(Digit), 1, 2)), Many(In(Space), 1), Group(2,
            Rep(In(Digit), 1, 3)), B>>),
     group_info |-> <<1, 2>>],
    \* line 66: \bSeason\s*(\d{1,2})\s+(\d{1,3})\b
    [re |-> Cat(<<B, Text(<<"S", "e", "a", "s", "o", "n">>), Many(In(Space),
            0), Group(1, Rep(In(Digit), 1, 2)), Many(In(Space), 1), Group(2,
            Rep(In(Digit), 1, 3)), B>>),
     group_info |-> <<1, 2>>],
    \* line 69: \bE(\d{1,3})[\s\-_.]*S(\d{1,2})\b
    [re |-> Cat(<<B, Text(<<"E">>), Group(1, Rep(In(Digit), 1, 3)),
            Many(In(Space \cup {"-", ".", "_"}), 0), Text(<<"S">>), Group(2,
            Rep(In(Digit), 1, 2)), B>>),
     group_info |-> <<2, 1>>],
    \* line 70: \bEp[\s\-_.]*(\d{1,3})[\s\-_.]*S(\d{1,2})\b
    [re |-> Cat(<<B, Text(<<"E", "p">>), Many(In(Space \cup {"-", ".",
            "_"}), 0), Group(1, Rep(In(Digit), 1, 3)),
            Many(In(Space \cup {"-", ".", "_"}), 0), Text(<<"S">>), Group(2,
            Rep(In(Digit), 1, 2)), B>>),
     group_info |-> <<2, 1>>],
    \* line 73: (?:^|[\s\-_.(\[])E(\d{2,4})(?=[\s\-_.)\]]|$)(?!p|fps)
    [re |-> Cat(<<Or(<<Bos, In(Space \cup {"(", "-", ".", "[", "_"})>>),
            Text(<<"E">>), Group(1, Rep(In(Digit), 2, 4)),
            Ahead(Or(<<In(Space \cup {")", "-", ".", "]", "_"}), Eos>>)),
            NotAhead(Or(<<Text(<<"p">>), Text(<<"f", "p", "s">>)>>))>>),
     group_info |-> <<None, 1>>],
    \* line 74: (?:^|[\s\-_.(\[])Episode[\s\-_.]*(\d{1,3})(?=[\s\-_.)\]]|$)
    [re |-> Cat(<<Or(<<Bos, In(Space \cup {"(", "-", ".", "[", "_"})>>),
            Text(<<"E", "p", "i", "s", "o", "d", "e">>),
            Many(In(Space \cup {"-", ".", "_"}), 0), Group(1, Rep(In(Digit),
            1, 3)), Ahead(Or(<<In(Space \cup {")", "-", ".", "]", "_"}),
            Eos>>))>>),
     group_info |-> <<None, 1>>],
    \* line 75: (?:^|[\s\-_.(\[])Ep[\s\-_.]*(\d{1,3})(?=[\s\-_.)\]]|$)
    [re |-> Cat(<<Or(<<Bos, In(Space \cup {"(", "-", ".", "[", "_"})>>),
            Text(<<"E", "p">>), Many(In(Space \cup {"-", ".", "_"}), 0),
            Group(1, Rep(In(Digit), 1, 3)), Ahead(Or(<<In(Space \cup {")",
            "-", ".", "]", "_"}), Eos>>))>>),
     group_info |-> <<None, 1>>],
    \* line 78: \[[A-Za-z0-9\-]+\][\s\-_.]+E(\d{1,3})(?![\dp])
    [re |-> Cat(<<Text(<<"[">>), Many(In(Letter \cup Digit \cup {"-"}), 1),
            Text(<<"]">>), Many(In(Space \cup {"-", ".", "_"}), 1),
            Text(<<"E">>), Group(1, Rep(In(Digit), 1, 3)),
            NotAhead(In(Digit \cup {"P", "p"}))>>),
     group_info |-> <<None, 1>>],
    \* line 79: \[[A-Za-z0-9\-]+\][\s\-_.]+Episode[\s\-_.]*(\d{1,3})(?![\dp])
    [re |-> Cat(<<Text(<<"[">>), Many(In(Letter \cup Digit \cup {"-"}), 1),
            Text(<<"]">>), Many(In(Space \cup {"-", ".", "_"}), 1),
            Text(<<"E", "p", "i", "s", "o", "d", "e">>),
            Many(In(Space \cup {"-", ".", "_"}), 0), Group(1, Rep(In(Digit),
            1, 3)), NotAhead(In(Digit \cup {"P", "p"}))>>),
     group_info |-> <<None, 1>>],
    \* line 82: (?:^|[\s\-_.])(\d{2,3})(?=[\s\-_.]|$)(?!p|fps|\d)
    [re |-> Cat(<<Or(<<Bos, In(Space \cup {"-", ".", "_"})>>), Group(1,
            Rep(In(Digit), 2, 3)), Ahead(Or(<<In(Space \cup {"-", ".",
            "_"}), Eos>>)), NotAhead(Or(<<Text(<<"p">>), Text(<<"f", "p",
            "s">>), In(Digit)>>))>>),
     group_info |-> <<None, 1>>],
    \* line 83: \[(\d{2,3})\](?!p|fps)
    [re |-> Cat(<<Text(<<"[">>), Group(1, Rep(In(Digit), 2, 3)),
            Text(<<"]">>), NotAhead(Or(<<Text(<<"p">>), Text(<<"f", "p",
            "s">>)>>))>>),
     group_info |-> <<None, 1>>],
    \* line 86: \bS(\d{1,2})\b(?![\dE])
    [re |-> Cat(<<B, Text(<<"S">>), Group(1, Rep(In(Digit), 1, 2)), B,
            NotAhead(In(Digit \cup {"E", "e"}))>>),
     group_info |-> <<1, None>>],
    \* line 87: \bSeason[\s\-_.]*(\d{1,2})\b
    [re |-> Cat(<<B, Text(<<"S", "e", "a", "s", "o", "n">>),
            Many(In(Space \cup {"-", ".", "_"}), 0), Group(1, Rep(In(Digit),
            1, 2)), B>>),
     group_info |-> <<1, None>>],
    \* line 91: ^S(\d{2})E(\d{2})$
    [re |-> Cat(<<Bos, Text(<<"S">>), Group(1, Rep(In(Digit), 2, 2)),
            Text(<<"E">>), Group(2, Rep(In(Digit), 2, 2)), Eos>>),
     group_info |-> <<1, 2>>],
    \* line 92: ^(\d{1,2})x(\d{2})$
    [re |-> Cat(<<Bos, Group(1, Rep(In(Digit), 1, 2)), Text(<<"x">>),
            Group(2, Rep(In(Digit), 2, 2)), Eos>>),
     group_info |-> <<1, 2>>],
    \* line 93: ^Season\s*(\d{1,2})\s*Episode\s*(\d{1,2})$
    [re |-> Cat(<<Bos, Text(<<"S", "e", "a", "s", "o", "n">>),
            Many(In(Space), 0), Group(1, Rep(In(Digit), 1, 2)),
            Many(In(Space), 0), Text(<<"E", "p", "i", "s", "o", "d", "e">>),
            Many(In(Space), 0), Group(2, Rep(In(Digit), 1, 2)), Eos>>),
     group_info |-> <<1, 2>>],
    \* line 94: ^S(\d{2})\s*-\s*E(\d{2})$
    [re |-> Cat(<<Bos, Text(<<"S">>), Group(1, Rep(In(Digit), 2, 2)),
            Many(In(Space), 0), Text(<<"-">>), Many(In(Space), 0),
            Text(<<"E">>), Group(2, Rep(In(Digit), 2, 2)), Eos>>),
     group_info |-> <<1, 2>>],
    \* line 97: ^\[S(\d{2})E(\d{2})\]$
    [re |-> Cat(<<Bos, Text(<<"[", "S">>), Group(1, Rep(In(Digit), 2, 2)),
            Text(<<"E">>), Group(2, Rep(In(Digit), 2, 2)), Text(<<"]">>),
            Eos>>),
     group_info |-> <<1, 2>>],
    \* line 98: ^\[(\d{1,2})x(\d{2})\]$
    [re |-> Cat(<<Bos, Text(<<"[">>), Group(1, Rep(In(Digit), 1, 2)),
            Text(<<"x">>), Group(2, Rep(In(Digit), 2, 2)), Text(<<"]">>),
            Eos>>),
     group_info |-> <<1, 2>>],
    \* line 99: ^\(S(\d{2})E(\d{2})\)$
    [re |-> Cat(<<Bos, Text(<<"(", "S">>), Group(1, Rep(In(Digit), 2, 2)),
            Text(<<"E">>), Group(2, Rep(In(Digit), 2, 2)), Text(<<")">>),
            Eos>>),
     group_info |-> <<1, 2>>],
    \* line 102: ^S(\d{2})\.E(\d{2})$
    [re |-> Cat(<<Bos, Text(<<"S">>), Group(1, Rep(In(Digit), 2, 2)),
            Text(<<".", "E">>), Group(2, Rep(In(Digit), 2, 2)), Eos>>),
     group_info |-> <<1, 2>>],
    \* line 103: ^(\d{1,2})\.(\d{2})$
    [re |-> Cat(<<Bos, Group(1, Rep(In(Digit), 1, 2)), Text(<<".">>),
            Group(2, Rep(In(Digit), 2, 2)), Eos>>),
     group_info |-> <<1, 2>>],
    \* line 106: ^E(\d{2,3})$
    [re |-> Cat(<<Bos, Text(<<"E">>), Group(1, Rep(In(Digit), 2, 3)), Eos>>),
     group_info |-> <<None, 1>>],
    \* line 107: ^Episode\s*(\d{1,3})$
    [re |-> Cat(<<Bos, Text(<<"E", "p", "i", "s", "o", "d", "e">>),
            Many(In(Space), 0), Group(1, Rep(In(Digit), 1, 3)), Eos>>),
     group_info |-> <<None, 1>>],
    \* line 108: ^\[E(\d{2,3})\]$
    [re |-> Cat(<<Bos, Text(<<"[", "E">>), Group(1, Rep(In(Digit), 2, 3)),
            Text(<<"]">>), Eos>>),
     group_info |-> <<None, 1>>]
    >>

QUALITY_PATTERNS ==
    <<
    \* line 115: (?<!\d)(144p)(?!\d)
    [re |-> Cat(<<NotBehind(In(Digit)), Group(1, Text(<<"1", "4", "4",
            "p">>)), NotAhead(In(Digit))>>),
     extractor |-> <<"1", "4", "4", "p">>],
    \* line 116: (?<!\d)(240p)(?!\d)
    [re |-> Cat(<<NotBehind(In(Digit)), Group(1, Text(<<"2", "4", "0",
            "p">>)), NotAhead(In(Digit))>>),
     extractor |-> <<"2", "4", "0", "p">>],
    \* line 117: (?<!\d)(360p)(?!\d)
    [re |-> Cat(<<NotBehind(In(Digit)), Group(1, Text(<<"3", "6", "0",
            "p">>)), NotAhead(In(Digit))>>),
     extractor |-> <<"3", "6", "0", "p">>],
    \* line 118: (?<!\d)(480p)(?!\d)
    [re |-> Cat(<<NotBehind(In(Digit)), Group(1, Text(<<"4", "8", "0",
            "p">>)), NotAhead(In(Digit))>>),
     extractor |-> <<"4", "8", "0", "p">>],
    \* line 119: \bSD\b
    [re |-> Cat(<<B, Text(<<"S", "D">>), B>>),
     extractor |-> <<"4", "8", "0", "p">>],
    \* line 120: (?<!\d)(540p)(?!\d)
    [re |-> Cat(<<NotBehind(In(Digit)), Group(1, Text(<<"5", "4", "0",
            "p">>)), NotAhead(In(Digit))>>),
     extractor |-> <<"5", "4", "0", "p">>],
    \* line 121: (?<!\d)(720p)(?!\d)
    [re |-> Cat(<<NotBehind(In(Digit)), Group(1, Text(<<"7", "2", "0",
            "p">>)), NotAhead(In(Digit))>>),
     extractor |-> <<"7", "2", "0", "p">>],
    \* line 122: \bHD\b
    [re |-> Cat(<<B, Text(<<"H", "D">>), B>>),
     extractor |-> <<"7", "2", "0", "p">>],
    \* line 123: (?<!\d)(1080p)(?!\d)
    [re |-> Cat(<<NotBehind(In(Digit)), Group(1, Text(<<"1", "0", "8", "0",
            "p">>)), NotAhead(In(Digit))>>),
     extractor |-> <<"1", "0", "8", "0", "p">>],
    \* line 124: \bFHD\b
    [re |-> Cat(<<B, Text(<<"F", "H", "D">>), B>>),
     extractor |-> <<"1", "0", "8", "0", "p">>],
    \* line 125: (?<!\d)(1440p)(?!\d)
    [re |-> Cat(<<NotBehind(In(Digit)), Group(1, Text(<<"1", "4", "4", "0",
            "p">>)), NotAhead(In(Digit))>>),
     extractor |-> <<"1", "4", "4", "0", "p">>],
    \* line 126: (?<!\d)(2160p)(?!\d)
    [re |-> Cat(<<NotBehind(In(Digit)), Group(1, Text(<<"2", "1", "6", "0",
            "p">>)), NotAhead(In(Digit))>>),
     extractor |-> <<"2", "1", "6", "0", "p">>],
    \* line 127: \b4k\b
    [re |-> Cat(<<B, Text(<<"4", "k">>), B>>),
     extractor |-> <<"2", "1", "6", "0", "p">>],
    \* line 128: [_\-. ](144p|240p|360p|480p|540p|720p|1080p|1440p|2160p)(?=[_\-. ])
    [re |-> Cat(<<In({" ", "-", ".", "_"}), Group(1, Or(<<Text(<<"1", "4",
            "4", "p">>), Text(<<"2", "4", "0", "p">>), Text(<<"3", "6", "0",
            "p">>), Text(<<"4", "8", "0", "p">>), Text(<<"5", "4", "0",
            "p">>), Text(<<"7", "2", "0", "p">>), Text(<<"1", "0", "8", "0",
            "p">>), Text(<<"1", "4", "4", "0", "p">>), Text(<<"2", "1", "6",
            "0", "p">>)>>)), Ahead(In({" ", "-", ".", "_"}))>>),
     extractor |-> group1],
    \* line 129: \bHDRip\b
    [re |-> Cat(<<B, Text(<<"H", "D", "R", "i", "p">>), B>>),
     extractor |-> <<"H", "D", "R", "i", "p">>]
    >>


\* ------------------------------------------------------------- file names
\* The file names the extractors are run on: a lead, an episode marker, a
\* quality tag and a tail, each from a short list.
Leads ==
    { <<"S", "h", "o", "w">>,   \* "Show"
      <<"[">>,   \* "["
      <<"S", "h", "o", "w", " ", "(", "S", "0", "1", "E", "0", "9", ")">> }   \* "Show (S01E09)"

Markers ==
    { <<>>,
      <<" ", "S", "0", "1", "E", "0", "4">>,   \* " S01E04"
      <<" ", "C", "h", " ", "3", "1", ".", "5">>,   \* " Ch 31.5"
      <<" ", "E", "0", "7">>,   \* " E07"
      <<" ", "S", "0", "2">>,   \* " S02"
      <<" ", "1", "x", "0", "4">>,   \* " 1x04"
      <<" ", "1", "2">>,   \* " 12"
      <<" ", "E", "p", " ", "7">> }   \* " Ep 7"

Tags ==
    { <<>>,
      <<".", "1", "0", "8", "0", "p">>,   \* ".1080p"
      <<".", "H", "D", "R", "i", "p">>,   \* ".HDRip"
      <<" ", "H", "D">>,   \* " HD"
      <<".", "7", "2", "0", "P">>,   \* ".720P"
      <<".", "H", "D", "R", "i", "p", ".", "4", "8", "0", "p">> }   \* ".HDRip.480p"

Tails ==
    { <<".", "m", "k", "v">>,   \* ".mkv"
      <<" ", "]", " ", "T", "i", "t", "l", "e", ".", "p", "d", "f">> }   \* " ] Title.pdf"

Filenames == {l \o m \o q \o e : l \in Leads, m \in Markers, q \in Tags, e \in Tails}

\* --------------------------------------------------- extract_season_episode
\* the episode of a result that has none: None (lines 140, 155 and 164)
NoEpisode == <<>>

\* "01", the season when the pattern names none (lines 146, 150, 164)
DefaultSeason == <<"0", "1">>

\* variant: any match ends the scan
ReturnsAnyMatch(ep) == TRUE

\* line 161: "if episode"
Returns(ep) == ep # NoEpisode

\* one turn of the loop, lines 138-162, for the catalogue entry p: whether it
\* returns, and what
Attempt(p, name) ==
    LET m == search(p.re, name)
        gi == p.group_info
        has(n) == lastindex(m) # 0 /\ n <= lastindex(m)
        se == IF gi[1] = None THEN DefaultSeason
              ELSE IF group(m, gi[1]) # <<>> THEN zfill(group(m, gi[1]), 2)
              ELSE DefaultSeason
        ep == IF gi[2] = None THEN NoEpisode
              ELSE IF group(m, gi[2]) # <<>> THEN zfill(group(m, gi[2]), 2)
              ELSE NoEpisode
    IN  IF ~m.found THEN [returns |-> FALSE]
        ELSE IF gi[1] # None /\ ~has(gi[1]) THEN [returns |-> FALSE]
        ELSE IF gi[2] # None /\ ~has(gi[2]) THEN [returns |-> FALSE]
        ELSE [returns |-> Returns(ep), season |-> se, episode |-> ep]

\* line 356 calls extract_season_episode(file_name); line 135
Strip ==
    /\ xpc = "call"
    /\ filename' = sub(file_name)
    /\ idx' = 1
    /\ xpc' = "scan"
    /\ UNCHANGED <<file_name, season, episode, quality_parts, quality>>
    /\ UNCHANGED pvars

\* lines 137-162, one pattern
Scan ==
    /\ xpc = "scan"
    /\ idx <= Len(SEASON_EPISODE_PATTERNS)
    /\ LET a == Attempt(SEASON_EPISODE_PATTERNS[idx], filename) IN
       IF a.returns
       THEN /\ season' = a.season
            /\ episode' = a.episode
            /\ xpc' = "scanned"
            /\ idx' = idx
       ELSE /\ idx' = idx + 1
            /\ UNCHANGED <<season, episode, xpc>>
    /\ UNCHANGED <<file_name, filename, quality_parts, quality>>
    /\ UNCHANGED pvars

\* line 164
Default ==
    /\ xpc = "scan"
    /\ idx > Len(SEASON_EPISODE_PATTERNS)
    /\ season' = DefaultSeason
    /\ episode' = NoEpisode
    /\ xpc' = "scanned"
    /\ UNCHANGED <<file_name, filename, idx, quality_parts, quality>>
    /\ UNCHANGED pvars

\* ---------------------------------------------------------- extract_quality
HDRip == <<"H", "D", "R", "i", "p">>

Unknown == <<"U", "n", "k", "n", "o", "w", "n">>

\* line 192
IsResolution(q) ==
    \/ q[Len(q)] = "p"
    \/ q = <<"4", "k">>
    \/ q = <<"2", "1", "6", "0", "p">>

\* line 357 calls extract_quality(file_name); lines 180-181
StartQuality ==
    /\ xpc = "scanned"
    /\ filename' = file_name
    /\ quality_parts' = <<>>
    /\ idx' = 1
    /\ xpc' = "quality"
    /\ UNCHANGED <<file_name, season, episode, quality>>
    /\ UNCHANGED pvars

\* lines 183-190, one pattern; seen holds what quality_parts holds
Quality ==
    /\ xpc = "quality"
    /\ idx <= Len(QUALITY_PATTERNS)
    /\ LET p == QUALITY_PATTERNS[idx]
           m == search(p.re, filename)
           q == lower(IF p.extractor = group1 THEN group(m, 1) ELSE p.extractor)
       IN  IF m.found /\ q \notin Range(quality_parts)
           THEN /\ quality_parts' = Append(quality_parts, q)
                /\ filename' = replace(filename, group(m, 0))
           ELSE UNCHANGED <<quality_parts, filename>>
    /\ idx' = idx + 1
    /\ UNCHANGED <<file_name, season, episode, quality, xpc>>
    /\ UNCHANGED pvars

\* lines 192-199
Pick ==
    /\ xpc = "quality"
    /\ idx > Len(QUALITY_PATTERNS)
    /\ LET resolution_qualities == SelectSeq(quality_parts, IsResolution) IN
       quality' = IF Len(resolution_qualities) > 0 THEN resolution_qualities[1]
                  ELSE IF <<"H", "D", "r", "i", "p">> \in Range(quality_parts)
                  THEN HDRip
                  ELSE Unknown
    /\ xpc' = "done"
    /\ UNCHANGED <<file_name, filename, idx, season, episode, quality_parts>>
    /\ UNCHANGED pvars

\* SpecExtract: lines 356-357 on every file name of the catalogue Filenames
InitExtract ==
    /\ Constructed
    /\ file_name \in Filenames
    /\ filename = <<>>
    /\ xpc = "call"
    /\ idx = 0
    /\ season = <<>>
    /\ episode = <<>>
    /\ quality_parts = <<>>
    /\ quality = <<>>

NextExtract ==
    \/ Strip
    \/ Scan
    \/ Default
    \/ StartQuality
    \/ Quality
    \/ Pick

SpecExtract == InitExtract /\ [][NextExtract]_vars

\* ------------------------------------------------------------ properties
\* the runs of owner o that are inside a semaphore
InFlight(o) == {t \in Tasks : message[t].owner = o /\ pc[t] \in Holding}

SameBatch(t, u) ==
    /\ message[t].group /\ message[u].group
    /\ message[t].owner = message[u].owner

\* task t runs lines 330-344 in this step
Checks(t) ==
    /\ pc[t] \in {"spawned", "woken"}
    /\ pc'[t] \notin {"spawned", "waiting", "woken"}
    /\ message[t].fid # NoId

HasRecord(f) == f \in DOMAIN renaming_operations

\* age of the record of f at the reading n of the clock
Age(f, n) == n - renaming_operations[f]

InFlightBound == \A o \in Owners : Cardinality(InFlight(o)) <= Capacity

\* C1: for every owner at most Capacity (4) runs are inside the owner's
\* semaphore at any time, whatever the number of arrivals and the
\* interleaving; an owner's semaphore, once created, is never replaced, and
\* every run uses the semaphore its owner has.
AdmissionBound ==
    [][ /\ InFlightBound'
        /\ \A o \in Owners :
              user_semaphores[o] # 0 => user_semaphores'[o] = user_semaphores[o]
        /\ \A t \in Tasks :
              tsem'[t] # 0 => tsem'[t] = user_semaphores'[message'[t].owner] ]_vars

\* C1 witness: an owner has Capacity runs in flight and a further run queued
LimitReached ==
    \E t \in Tasks :
        /\ pc[t] = "waiting"
        /\ Cardinality(InFlight(message[t].owner)) = Capacity

\* C2: every permit taken is given back exactly once on every way out of
\* process_file: value plus the runs holding a permit is always Capacity, so
\* when no run of an owner is in flight the semaphore is back at Capacity.
PermitsConserved ==
    \A s \in 1..Len(sems) :
        /\ sems[s].value >= 0
        /\ sems[s].value
             + Cardinality({t \in Tasks : tsem[t] = s /\ pc[t] \in Holding})
           = Capacity

\* C2 witness: a run ended by an exception out of the finally block, another
\* run ended otherwise, nothing is in flight and every semaphore is full
AllReleased ==
    /\ \E t \in Tasks : pc[t] = "crashed"
    /\ \E t \in Tasks : pc[t] \in {"done", "failed", "dropped", "ignored"}
    /\ \A t \in Tasks : pc[t] \in Terminal \cup {"idle"}
    /\ \A s \in 1..Len(sems) : sems[s].value = Capacity

\* C3: a run whose identity has a record younger than TTL is dropped at the
\* check: it ends there, the record keeps its timestamp, nothing is
\* downloaded, tagged or uploaded, and a dropped run never does anything more.
DuplicateDropped ==
    [][ \A t \in Tasks :
          /\ (Checks(t) /\ HasRecord(message[t].fid)
                /\ Age(message[t].fid, now') < TTL)
             => /\ pc'[t] = "dropped"
                /\ renaming_operations' = renaming_operations
                /\ fs' = fs
                /\ delivered' = delivered
                /\ reached'[t] = 0
          /\ pc[t] = "dropped"
             => /\ pc'[t] = "dropped"
                /\ reached'[t] = 0
                /\ t \notin DOMAIN recorded' ]_vars

\* C3 witness: a run was dropped on a record that is 5 seconds old
DroppedOnYoungRecord ==
    \E t \in Tasks :
        /\ pc[t] = "dropped"
        /\ HasRecord(message[t].fid)
        /\ Age(message[t].fid, now) > 0
        /\ Age(message[t].fid, now) < TTL

\* C4: two runs of the same identity never both pass the dedup check less
\* than TTL apart, whether or not the first has finished.
NoReprocessWithinTTL ==
    \A t, u \in DOMAIN recorded :
        (t # u /\ message[t].fid = message[u].fid /\ recorded[t] <= recorded[u])
        => recorded[u] - recorded[t] >= TTL

\* C5: when a run that passed the dedup check has ended, none of the files
\* it wrote (download, metadata output, thumbnail) is left on disk.
ArtifactsRemoved ==
    \A t \in DOMAIN recorded : pc[t] \in Terminal => leftover[t] = {}

\* C6: an arrival without a format template is rejected and changes nothing
\* else: no task, no semaphore, no permit, no dedup record, no file; the
\* rejected message is never taken up later.
NoTemplateRejected ==
    [][ \A t \in Tasks :
          /\ (pc[t] = "idle" /\ pc'[t] # "idle" /\ ~message'[t].template)
             => /\ pc'[t] = "rejected"
                /\ UNCHANGED <<user_semaphores, sems, tsem, renaming_operations,
                               recorded, fs, delivered, reached>>
          /\ pc[t] = "rejected"
             => /\ pc'[t] = "rejected"
                /\ tsem'[t] = 0
                /\ t \notin DOMAIN recorded' ]_vars

\* C6 witness: a message was rejected and its owner still has no semaphore
RejectedWithoutSemaphore ==
    \E t \in Tasks :
        /\ pc[t] = "rejected"
        /\ user_semaphores[message[t].owner] = 0

\* C7: the files of one media group are delivered in ascending order of
\* their target filename, whatever the order of arrival and the durations.
BatchDeliveredInOrder ==
    \A i, j \in 1..Len(delivered) :
        (i < j /\ SameBatch(delivered[i], delivered[j]))
        => message[delivered[i]].name <= message[delivered[j]].name

\* C8: two files of one media group are never being uploaded at the same time.
OneUploadPerBatch ==
    \A t, u \in Tasks :
        (t # u /\ SameBatch(t, u)) => ~(pc[t] = "upload" /\ pc[u] = "upload")

\* C9: a run waits for a permit only while its own owner has Capacity runs
\* in flight; what other owners have in flight never makes it wait.
OwnersIndependent ==
    \A t \in Tasks :
        pc[t] = "waiting" => Cardinality(InFlight(message[t].owner)) = Capacity

\* C9 witness: owner 1 is at the limit with a run queued, and a run of owner
\* 2 that arrived after the queued one is in flight
OtherOwnerAdmitted ==
    \E a, b \in Tasks :
        /\ a < b
        /\ message[a].owner = 1 /\ pc[a] = "waiting"
        /\ Cardinality(InFlight(1)) = Capacity
        /\ message[b].owner = 2 /\ pc[b] \in Holding \ {"woken"}

\* C10: a run that finds a record of age TTL or more (whatever the age) is
\* accepted and overwrites the record with the current time.
StaleRecordIsMiss ==
    [][ \A t \in Tasks :
          (Checks(t) /\ HasRecord(message[t].fid)
             /\ Age(message[t].fid, now') >= TTL)
          => /\ pc'[t] = "fmt"
             /\ renaming_operations'[message[t].fid] = now' ]_vars

\* ---------------------------------------------- properties of the extractors
\* "[ Ch 31.5 ] Title.pdf"
ChapterFile ==
    <<"[", " ", "C", "h", " ", "3", "1", ".", "5", " ", "]", " ",
      "T", "i", "t", "l", "e", ".", "p", "d", "f">>

\* extract_season_episode has returned
Scanned == xpc \in {"scanned", "quality", "done"}

\* C11: for the file name "[ Ch 31.5 ] Title.pdf" extract_season_episode
\* returns season "01" and the chapter "31.5" as it is written: not padded,
\* not split at the dot, its integer part not taken for the season.
ChapterKeptVerbatim ==
    (Scanned /\ file_name = ChapterFile) =>
        /\ season = DefaultSeason
        /\ episode = <<"3", "1", ".", "5">>

\* the labels of the resolution patterns (every entry but the last) and the
\* label of the named fallback, as quality_parts holds them
NamedFallback == lower(HDRip)

ResolutionLabels ==
    {lower(QUALITY_PATTERNS[k].extractor) : k \in 1..Len(QUALITY_PATTERNS)}
        \ {group1, NamedFallback}

\* C12: extract_quality returns "Unknown" only when no pattern matched; when
\* a resolution pattern matched it returns a resolution label; when HDRip is
\* the only match it returns "HDRip".
QualityLabel ==
    xpc = "done" =>
        LET parts == Range(quality_parts) IN
        /\ quality = Unknown <=> parts = {}
        /\ parts \cap ResolutionLabels # {} => quality \in ResolutionLabels
        /\ parts = {NamedFallback} => quality = HDRip

\* entry k of the catalogue matches name and its episode group is not empty
Yields(k, name) ==
    LET p == SEASON_EPISODE_PATTERNS[k]
        m == search(p.re, name)
    IN  /\ p.group_info[2] # None
        /\ m.found
        /\ group(m, p.group_info[2]) # <<>>

\* C15: the result of extract_season_episode is that of the first catalogue
\* entry that matches with a non-empty episode: its episode, and its season
\* or "01" when the entry has no season group; when no entry yields an
\* episode the result is ("01", None), whatever season-only entry matched;
\* the episode is never "0".
FirstEpisodeWins ==
    xpc = "scanned" =>
        LET Y == {k \in 1..Len(SEASON_EPISODE_PATTERNS) : Yields(k, filename)} IN
        /\ episode # <<"0">>
        /\ IF Y = {}
           THEN season = DefaultSeason /\ episode = NoEpisode
           ELSE LET k == CHOOSE k \in Y : \A j \in Y : k <= j
                    gi == SEASON_EPISODE_PATTERNS[k].group_info
                    m == search(SEASON_EPISODE_PATTERNS[k].re, filename)
                IN  /\ idx = k
                    /\ episode = zfill(group(m, gi[2]), 2)
                    /\ season = IF gi[1] = None THEN DefaultSeason
                                ELSE zfill(group(m, gi[1]), 2)

\* a season-only entry matched a season other than "01", and the result is
\* ("01", None) all the same
SeasonOnlyMatchSkipped ==
    /\ xpc = "scanned"
    /\ season = DefaultSeason
    /\ episode = NoEpisode
    /\ \E k \in 1..Len(SEASON_EPISODE_PATTERNS) :
          LET p == SEASON_EPISODE_PATTERNS[k]
              m == search(p.re, filename)
          IN  /\ p.group_info[2] = None
              /\ m.found
              /\ zfill(group(m, p.group_info[1]), 2) # DefaultSeason

\* ------------------------------------------------ properties of the queue
\* C13: the dedup check comes before admission: a message whose identity has
\* a record younger than TTL never waits for a permit of its owner.
DuplicateNeverQueues ==
    \A t \in Tasks :
        pc[t] = "waiting" => ~IsDuplicate(message[t].fid, now)

\* C14: admission queues and never rejects: a run that finds its owner's
\* Capacity permits taken waits having done no pipeline work, is handed a
\* permit in the end (every admitted run terminating), and no message with
\* a template is turned away.
QueuedThenAdmitted ==
    /\ [](\A t \in Tasks :
            /\ pc[t] = "waiting" =>
                   /\ Cardinality(InFlight(message[t].owner)) = Capacity
                   /\ reached[t] = 0
                   /\ t \notin DOMAIN recorded
            /\ pc[t] = "rejected" => ~message[t].template)
    /\ \A t \in Tasks : (pc[t] = "waiting") ~> (pc[t] \in Holding)

\* a run that waited has been handed the permit another run released
PermitHandedOver == \E t \in Tasks : pc[t] = "woken"

\* --------------------------------------------- properties of identities
\* the runs past the dedup check (line 344) and not yet terminated
Running == {t \in Tasks : pc[t] \in {"fmt", "except"} \cup Deep}

SameFile(t, u) == t # u /\ message[t].fid = message[u].fid

\* the later of the two times at which t and u wrote their records
Later(t, u) == IF recorded[t] > recorded[u] THEN recorded[t] ELSE recorded[u]

\* C16: at no time are two runs of one file identity past the dedup check
\* and not yet terminated, however long a run lasts.
OneRunPerIdentity ==
    \A t \in Running, u \in Running : ~SameFile(t, u)

\* C16, as the code has it: two runs of one file identity are past the
\* dedup check and not yet terminated at the same time only if the later
\* of them passed the check TTL seconds or more after a run of that
\* identity had written its record.
SecondRunAfterTTL ==
    \A t \in Running, u \in Running :
        SameFile(t, u) =>
            \E v \in DOMAIN recorded :
                /\ message[v].fid = message[t].fid
                /\ Later(t, u) - recorded[v] >= TTL

\* two runs of one file are in flight, their checks TTL or more apart
TwoRunsOfOneFile ==
    \E t \in Running, u \in Running :
        /\ SameFile(t, u)
        /\ recorded[u] - recorded[t] >= TTL

\* the paths of t are bound (lines 375-376)
Bound(t) == t \in Running /\ reached[t] >= 1

\* C17: two runs in flight never use the same working path, and the file a
\* run has downloaded stays on disk until the run has uploaded it; also for
\* distinct files with the same computed new_filename and for runs of
\* different owners.
WorkingPathsApart ==
    /\ \A t \in Tasks, u \in Tasks :
           (t # u /\ Bound(t) /\ Bound(u)) =>
               /\ download_path(t) # download_path(u)
               /\ metadata_path(t) # metadata_path(u)
    /\ \A t \in Tasks :
           pc[t] \in {"metadata", "thumb", "upload"} => download_path(t) \in fs

\* C18: renaming_operations holds a record exactly for the identities with
\* a run in flight: the record is gone when the run that wrote it has
\* terminated, whatever the failure, and no run removes the record of a run
\* that is still in flight.
RecordsMatchRuns ==
    /\ \A f \in DOMAIN renaming_operations :
           \E t \in Running : message[t].fid = f
    /\ \A t \in Running : HasRecord(message[t].fid)

====
